---- MODULE Spec2Model ----
(***************************************************************************)
(* Survey-data cleaning pipeline (processing.py) and its Streamlit driver  *)
(* (app.py).                                                               *)
(*                                                                         *)
(* A table is a record [index, cols]: index is the sequence of row labels  *)
(* (pandas' default RangeIndex 0..n-1 for a file read by read_csv /        *)
(* read_excel), cols the sequence of columns in table order.  A column is  *)
(* [name, dtype, vals] with dtype "number" or "object".  A numeric cell is *)
(* an exact rational <<num, den>> in lowest terms with den > 0; the        *)
(* missing value NaN is <<0, 0>>.  An object cell is a string.             *)
(***************************************************************************)
EXTENDS Integers, Sequences, FiniteSets, TLC

VARIABLES
    df,             \* library call: the caller's table object
    columns,        \* library call: the column selection (a list of names)
    method,         \* library call: the imputation method
    weight_column,  \* library call / run: the weight column name
    fn,             \* library call: name of the last function called
    res,            \* library call: outcome of the last call
    res1,           \* library call: outcome of the call before the last
    uploaded_file,  \* app: <<>> (None) or <<name>>
    df_raw,         \* app: table read from the uploaded file
    cfg,            \* app: sidebar configuration of the current run
    pc,             \* app: position inside the Run Analysis handler
    df_imputed,     \* app: local of the handler
    df_outliers_handled, \* app: local of the handler
    df_validated,   \* app: local of the handler
    df_estimates,   \* app: local of the handler
    logs,           \* app: local of the handler
    session,        \* app: st.session_state
    shown,          \* app: what the last script run rendered
    origin,         \* history: the file the stored results were computed from
    err             \* exception that ended the last call / script run

vars == <<df, columns, method, weight_column, fn, res, res1, uploaded_file,
          df_raw, cfg, pc, df_imputed, df_outliers_handled, df_validated,
          df_estimates, logs, session, shown, origin, err>>

libVars == <<df, columns, method, weight_column, fn, res, res1>>
appVars == <<uploaded_file, df_raw, cfg, pc, df_imputed, df_outliers_handled,
             df_validated, df_estimates, logs, session, shown, origin>>

----------------------------------------------------------------------------
(* Exact arithmetic on cells.                                              *)

NaN == <<0, 0>>

IsNaN(x) == x[2] = 0

Abs(n) == IF n < 0 THEN -n ELSE n

RECURSIVE GCD(_, _)
GCD(a, b) == IF b = 0 THEN a ELSE GCD(b, a % b)

\* n/d in lowest terms with a positive denominator (d # 0)
Rat(n, d) ==
    LET g == GCD(Abs(n), Abs(d))
        s == IF d < 0 THEN -1 ELSE 1
    IN  <<(s * n) \div g, (s * d) \div g>>

Int2Rat(n) == <<n, 1>>

\* IEEE semantics of NaN: it propagates through arithmetic and every
\* comparison with it is false
RAdd(a, b) == IF IsNaN(a) \/ IsNaN(b) THEN NaN
              ELSE Rat(a[1] * b[2] + b[1] * a[2], a[2] * b[2])

RSub(a, b) == IF IsNaN(a) \/ IsNaN(b) THEN NaN
              ELSE Rat(a[1] * b[2] - b[1] * a[2], a[2] * b[2])

RMul(a, b) == IF IsNaN(a) \/ IsNaN(b) THEN NaN
              ELSE Rat(a[1] * b[1], a[2] * b[2])

\* a / b for b # 0
RDiv(a, b) == IF IsNaN(a) \/ IsNaN(b) THEN NaN
              ELSE Rat(a[1] * b[2], a[2] * b[1])

RLt(a, b) == ~IsNaN(a) /\ ~IsNaN(b) /\ a[1] * b[2] < b[1] * a[2]

RGt(a, b) == RLt(b, a)

RECURSIVE RSum(_)
RSum(s) == IF s = <<>> THEN Int2Rat(0) ELSE RAdd(Head(s), RSum(Tail(s)))

----------------------------------------------------------------------------
(* Tables.                                                                 *)

NRows(t) == Len(t.index)

ColNames(t) == [i \in 1..Len(t.cols) |-> t.cols[i].name]

HasCol(t, c) == \E i \in 1..Len(t.cols) : t.cols[i].name = c

ColPos(t, c) == CHOOSE i \in 1..Len(t.cols) : t.cols[i].name = c

Col(t, c) == t.cols[ColPos(t, c)]

IsNumeric(t, c) == Col(t, c).dtype = "number"

\* df[c] = vals
SetCol(t, c, vals) ==
    [t EXCEPT !.cols[ColPos(t, c)].vals = vals]

\* df.select_dtypes(include=np.number).columns.tolist()
NumericCols(t) ==
    LET keep(i) == t.cols[i].dtype = "number"
        idx == SelectSeq([i \in 1..Len(t.cols) |-> i], keep)
    IN  [k \in 1..Len(idx) |-> t.cols[idx[k]].name]

\* the non-missing values of a numeric column, in row order
Present(vals) == SelectSeq(vals, LAMBDA x : ~IsNaN(x))

EmptyFrame == [index |-> <<>>, cols |-> <<>>]

Line(m, c, n) == [msg |-> m, col |-> c, n |-> n]

Result(a, r, l, e) == [arg |-> a, ret |-> r, log |-> l, exc |-> e]

----------------------------------------------------------------------------
(* impute_missing_values                                                   *)

\* KNNImputer(n_neighbors=5)
n_neighbors == 5

\* SimpleImputer(strategy='median'): the median of the observed values
Median(vals) ==
    LET s == SortSeq(Present(vals), RLt)
        n == Len(s)
    IN  IF n = 0 THEN NaN
        ELSE IF n % 2 = 1 THEN s[(n + 1) \div 2]
        ELSE RDiv(RAdd(s[n \div 2], s[n \div 2 + 1]), Int2Rat(2))

\* SimpleImputer(strategy='mean'): the mean of the observed values
Mean(vals) ==
    LET s == Present(vals)
    IN  IF s = <<>> THEN NaN ELSE RDiv(RSum(s), Int2Rat(Len(s)))

\* squared nan_euclidean distance between rows r and i over the columns
\* cols: the squared differences on the coordinates both rows have, scaled
\* by (number of coordinates / number of coordinates both have); NaN when
\* the rows share no coordinate
Dist2(t, cols, r, i) ==
    LET both == {k \in 1..Len(cols) :
                    /\ ~IsNaN(Col(t, cols[k]).vals[r])
                    /\ ~IsNaN(Col(t, cols[k]).vals[i])}
        sq(k) == LET d == RSub(Col(t, cols[k]).vals[r], Col(t, cols[k]).vals[i])
                 IN  RMul(d, d)
        sqs == [k \in 1..Len(cols) |-> IF k \in both THEN sq(k) ELSE Int2Rat(0)]
    IN  IF both = {} THEN NaN
        ELSE RMul(Rat(Len(cols), Cardinality(both)), RSum(sqs))

\* a <= b on distances, NaN ordered last (numpy's ordering in argpartition)
DistLe(a, b) == IsNaN(b) \/ (~IsNaN(a) /\ ~RLt(b, a))

\* KNNImputer: the value imputed into row r of column c.  The donors are
\* the rows that have c; a receiver whose distance to every donor is NaN
\* gets the column mean; otherwise the min(n_neighbors, #donors) nearest
\* donors are taken (ties broken arbitrarily) and the value is the mean of
\* those among them whose distance is defined.
KNNValue(t, cols, r, c) ==
    LET vals == Col(t, c).vals
        donors == {i \in 1..Len(vals) : ~IsNaN(vals[i])}
        defined == {i \in donors : ~IsNaN(Dist2(t, cols, r, i))}
        k == IF Cardinality(donors) < n_neighbors
             THEN Cardinality(donors) ELSE n_neighbors
        near == CHOOSE S \in SUBSET donors :
                    /\ Cardinality(S) = k
                    /\ \A i \in S : \A j \in donors \ S :
                          DistLe(Dist2(t, cols, r, i), Dist2(t, cols, r, j))
        used == near \cap defined
        pick(S) == [i \in 1..Len(vals) |-> IF i \in S THEN vals[i] ELSE NaN]
    IN  IF defined = {} THEN Mean(vals) ELSE Mean(pick(used))

\* imputer.fit_transform(df[numeric_cols]) restricted to column c
ImputedCol(t, cols, c, m) ==
    LET vals == Col(t, c).vals
    IN  [r \in 1..Len(vals) |->
            IF ~IsNaN(vals[r]) THEN vals[r]
            ELSE IF m = "Mean" THEN Mean(vals)
            ELSE IF m = "KNN" THEN KNNValue(t, cols, r, c)
            ELSE Median(vals)]

\* lines 9-23 of impute_missing_values, run on the table df_imputed
Imputation(t, cs, m) ==
    LET absent == \E k \in 1..Len(cs) : ~HasCol(t, cs[k])
        numeric_cols == SelectSeq(cs, LAMBDA c : HasCol(t, c) /\ IsNumeric(t, c))
        \* a column with no observed value is dropped by the imputer, so the
        \* transformed block has fewer columns than numeric_cols
        dropped == \E k \in 1..Len(numeric_cols) :
                      Present(Col(t, numeric_cols[k]).vals) = <<>>
        block == [k \in 1..Len(numeric_cols) |->
                     ImputedCol(t, numeric_cols, numeric_cols[k], m)]
        RECURSIVE assign(_, _)
        assign(tt, k) == IF k > Len(numeric_cols) THEN tt
                         ELSE assign(SetCol(tt, numeric_cols[k], block[k]), k + 1)
    IN  IF absent THEN Result(t, EmptyFrame, <<>>, "KeyError")
        ELSE IF numeric_cols = <<>>
        THEN Result(t, t, <<Line("No numeric columns selected for imputation.", "", 0)>>, "none")
        ELSE IF dropped THEN Result(t, EmptyFrame, <<>>, "ValueError")
        ELSE Result(t, assign(t, 1),
                    <<Line("Imputed missing values", m, Len(numeric_cols))>>, "none")

\* faulty variant: df_imputed = df, without the copy: the caller's table is the one
\* written to
impute_in_place(t, cs, m) ==
    LET r == Imputation(t, cs, m)
    IN  IF r.exc = "none" THEN Result(r.ret, r.ret, r.log, r.exc) ELSE r

\* impute_missing_values(df, columns, method): the work is done on
\* df.copy(), so the caller's table stays as it was
impute_missing_values(t, cs, m) ==
    LET r == Imputation(t, cs, m)
    IN  Result(t, r.ret, r.log, r.exc)

----------------------------------------------------------------------------
(* handle_outliers                                                         *)

\* Series.quantile(qn/qd): linear interpolation between the order
\* statistics around position (n-1)*q of the observed (non-missing) values;
\* NaN when nothing is observed
Quantile(vals, qn, qd) ==
    LET s == SortSeq(Present(vals), RLt)
        n == Len(s)
        pos == (n - 1) * qn
        lo == pos \div qd + 1
        hi == IF lo < n THEN lo + 1 ELSE n
        frac == Rat(pos % qd, qd)
    IN  IF n = 0 THEN NaN
        ELSE RAdd(s[lo], RMul(frac, RSub(s[hi], s[lo])))

Q1(vals) == Quantile(vals, 1, 4)

Q3(vals) == Quantile(vals, 3, 4)

IQR(vals) == RSub(Q3(vals), Q1(vals))

\* Q1 - 1.5 * IQR
lower_bound(vals) == RSub(Q1(vals), RMul(Rat(3, 2), IQR(vals)))

\* faulty variant: the factor 1.5 forgotten on the upper side
upper_bound_no_factor(vals) == RAdd(Q3(vals), IQR(vals))

\* Q3 + 1.5 * IQR
upper_bound(vals) == RAdd(Q3(vals), RMul(Rat(3, 2), IQR(vals)))

\* the rows selected by (col < lower_bound) | (col > upper_bound)
Outliers(vals) ==
    LET lb == lower_bound(vals)
        ub == upper_bound(vals)
    IN  {r \in 1..Len(vals) : RLt(vals[r], lb) \/ RGt(vals[r], ub)}

\* faulty variant: only the upper side is clamped
CappedUpperOnly(vals) ==
    LET ub == upper_bound(vals)
    IN  [r \in 1..Len(vals) |-> IF RGt(vals[r], ub) THEN ub ELSE vals[r]]

\* np.where(col < lower_bound, lower_bound, col), then
\* np.where(col > upper_bound, upper_bound, col)
Capped(vals) ==
    LET lb == lower_bound(vals)
        ub == upper_bound(vals)
        low == [r \in 1..Len(vals) |-> IF RLt(vals[r], lb) THEN lb ELSE vals[r]]
    IN  [r \in 1..Len(vals) |-> IF RGt(low[r], ub) THEN ub ELSE low[r]]

\* one iteration of the loop over valid_columns: the table and the log
\* lines after column c
OutlierStep(acc, c) ==
    LET t == acc.ret
        vals == Col(t, c).vals
        n == Cardinality(Outliers(vals))
    IN  IF ~IsNumeric(t, c) THEN acc
        ELSE IF n > 0
        THEN [acc EXCEPT !.ret = SetCol(t, c, Capped(vals)),
                         !.log = @ \o <<Line("Found outlier(s)", c, n),
                                        Line("Capped outliers", c, 0)>>]
        ELSE [acc EXCEPT !.log = @ \o <<Line("No outliers detected", c, 0)>>]

RECURSIVE OutlierLoop(_, _)
OutlierLoop(acc, cs) ==
    IF cs = <<>> THEN acc ELSE OutlierLoop(OutlierStep(acc, Head(cs)), Tail(cs))

\* handle_outliers(df, columns)
handle_outliers(t, cs) ==
    LET valid_columns == SelectSeq(cs, LAMBDA c : HasCol(t, c))
        done == OutlierLoop(Result(t, t, <<>>, "none"), valid_columns)
    IN  IF done.log = <<>>
        THEN [done EXCEPT !.log =
                 <<Line("No numeric columns selected for outlier handling.", "", 0)>>]
        ELSE done

----------------------------------------------------------------------------
(* apply_rules.  Age, when present, is a numeric column.                   *)

\* the age below which 'Employed' is a violation
AdultAge == 18

\* faulty variant: Age <= 18 instead of Age < 18
ViolationsLe(t) ==
    LET age == Col(t, "Age").vals
        status == Col(t, "Employment_Status")
        hit == SelectSeq([r \in 1..NRows(t) |-> r],
                         LAMBDA r : /\ ~RGt(age[r], Int2Rat(AdultAge))
                                    /\ ~IsNaN(age[r])
                                    /\ status.dtype = "object"
                                    /\ status.vals[r] = "Employed")
    IN  [k \in 1..Len(hit) |-> t.index[hit[k]]]

\* the index labels of the rows with Age < 18 and Employment_Status ==
\* 'Employed' (violations.index)
Violations(t) ==
    LET age == Col(t, "Age").vals
        status == Col(t, "Employment_Status")
        hit == SelectSeq([r \in 1..NRows(t) |-> r],
                         LAMBDA r : /\ RLt(age[r], Int2Rat(AdultAge))
                                    /\ status.dtype = "object"
                                    /\ status.vals[r] = "Employed")
    IN  [k \in 1..Len(hit) |-> t.index[hit[k]]]

\* df.loc[labels, c] = v: every row whose index label is among labels
LocAssign(t, labels, c, v) ==
    LET old == Col(t, c).vals
        hit(r) == \E k \in 1..Len(labels) : labels[k] = t.index[r]
    IN  SetCol(t, c, [r \in 1..Len(old) |-> IF hit(r) THEN v ELSE old[r]])

\* apply_rules(df)
apply_rules(t) ==
    IF HasCol(t, "Age") /\ HasCol(t, "Employment_Status")
    THEN LET violations == Violations(t)
         IN  IF violations # <<>>
             THEN Result(t, LocAssign(t, violations, "Employment_Status", "Unemployed"),
                         <<Line("Found rule violation(s)", "", Len(violations))>>, "none")
             ELSE Result(t, t, <<Line("No rule violations found.", "", 0)>>, "none")
    ELSE Result(t, t, <<Line("Could not apply age/employment rule", "", 0)>>, "none")

----------------------------------------------------------------------------
(* calculate_estimates.  The weight column, when present, is numeric.      *)

\* df[[col, weight_column]].dropna(): the rows that have both
ValidRows(t, c, w) ==
    SelectSeq([r \in 1..NRows(t) |-> r],
              LAMBDA r : ~IsNaN(Col(t, c).vals[r]) /\ ~IsNaN(Col(t, w).vals[r]))

\* faulty variant: the mean of the whole column, not of the rows kept
UnweightedMeanAllRows(t, c, w) == Mean(Col(t, c).vals)

\* valid_data[col].mean()
UnweightedMean(t, c, w) ==
    LET rows == ValidRows(t, c, w)
    IN  RDiv(RSum([k \in 1..Len(rows) |-> Col(t, c).vals[rows[k]]]), Int2Rat(Len(rows)))

\* the scale np.average divides by: sum of the weights of the rows kept
WeightSum(t, c, w) ==
    LET rows == ValidRows(t, c, w)
    IN  RSum([k \in 1..Len(rows) |-> Col(t, w).vals[rows[k]]])

\* np.average(valid_data[col], weights=valid_data[weight_column]) for a
\* nonzero sum of weights
WeightedMean(t, c, w) ==
    LET rows == ValidRows(t, c, w)
        prod == [k \in 1..Len(rows) |->
                    RMul(Col(t, c).vals[rows[k]], Col(t, w).vals[rows[k]])]
    IN  RDiv(RSum(prod), WeightSum(t, c, w))

\* the columns the loop gives a summary entry, in table order
Estimated(t, w) ==
    SelectSeq(NumericCols(t), LAMBDA c : c # w /\ ValidRows(t, c, w) # <<>>)

\* calculate_estimates(df, weight_column)
calculate_estimates(t, w) ==
    LET cs == Estimated(t, w)
        \* np.average raises when the weights sum to zero
        zero == \E k \in 1..Len(cs) : WeightSum(t, cs[k], w) = Int2Rat(0)
        summary_df == [k \in 1..Len(cs) |->
                          [Variable |-> cs[k],
                           UnweightedMean |-> UnweightedMean(t, cs[k], w),
                           WeightedMean |-> WeightedMean(t, cs[k], w)]]
    IN  IF ~HasCol(t, w)
        THEN Result(t, <<>>, <<Line("Weight column not found", w, 0)>>, "none")
        ELSE IF zero THEN Result(t, <<>>, <<>>, "ZeroDivisionError")
        ELSE IF cs = <<>>
        THEN Result(t, <<>>, <<Line("No valid numeric columns to generate estimates for.", "", 0)>>, "none")
        ELSE Result(t, summary_df, <<Line("Calculated weighted and unweighted means", w, 0)>>, "none")

----------------------------------------------------------------------------
(* Input tables.                                                           *)

\* numeric cells range over NaN and 0..MaxVal
MaxVal == 1

\* rows of the tables given to handle_outliers
MaxRows == 5

Cells == {NaN} \cup {Int2Rat(v) : v \in 0..MaxVal}

\* the index pandas gives a table read from a file
RangeIndex(n) == [i \in 1..n |-> i - 1]

NumCol(name, vals) == [name |-> name, dtype |-> "number", vals |-> vals]

ObjCol(name, vals) == [name |-> name, dtype |-> "object", vals |-> vals]

Table(n, cols) == [index |-> RangeIndex(n), cols |-> cols]

\* Income and Design_Weight hold the same values, so that a selection of
\* one of them leaves an unselected column with the same outliers
OutlierTable(v) ==
    Table(Len(v), <<NumCol("Income", v),
                    ObjCol("Employment_Status", [r \in 1..Len(v) |-> "Employed"]),
                    NumCol("Design_Weight", v)>>)

\* rows of the tables given to the four stages one by one
StageRows == 3

\* Income is blank (no observed value), complete, or Age's values reversed
IncomePatterns(v) ==
    {[r \in 1..Len(v) |-> NaN],
     [r \in 1..Len(v) |-> Int2Rat(r)],
     [r \in 1..Len(v) |-> v[Len(v) + 1 - r]]}

\* the table, with or without its Employment_Status column
StageTable(v, w, status) ==
    Table(Len(v),
          <<NumCol("Age", v)>>
          \o (IF status
              THEN <<ObjCol("Employment_Status", [r \in 1..Len(v) |-> "Employed"])>>
              ELSE <<>>)
          \o <<NumCol("Income", w)>>)

StageSelections ==
    {<<>>, <<"Age">>, <<"Income">>, <<"Income", "Age">>, <<"Employment_Status">>,
     <<"Age", "Employment_Status">>, <<"Region">>, <<"Age", "Region">>}

\* "Mode" stands for any unrecognised method
Methods == {"Median", "Mean", "KNN", "Mode"}

\* rows of the tables given to apply_rules
RuleRows == 3

\* ages around the rule's threshold, and the missing age
RuleAges == {NaN} \cup {Int2Rat(AdultAge - 1 + v) : v \in 0..MaxVal}

\* "NaN" is the missing value of an object column
Statuses == {"Employed", "Unemployed", "NaN"}

\* a table with both rule columns, or with one of them absent
RuleTable(a, e, has) ==
    Table(Len(a),
          (IF "Age" \in has THEN <<NumCol("Age", a)>> ELSE <<>>)
          \o (IF "Employment_Status" \in has
              THEN <<ObjCol("Employment_Status", e)>> ELSE <<>>))

\* rows of the tables given to calculate_estimates
EstRows == 2

\* weights range over NaN and 0..MaxWeight
MaxWeight == 2

Weights == {NaN} \cup {Int2Rat(v) : v \in 0..MaxWeight}

\* Income holds Age's values reversed; Blank has no observed value
EstimateTable(a, w) ==
    LET n == Len(a)
    IN  Table(n, <<NumCol("Age", a),
                   ObjCol("Employment_Status", [r \in 1..n |-> "Employed"]),
                   NumCol("Design_Weight", w),
                   NumCol("Income", [r \in 1..n |-> a[n + 1 - r]]),
                   NumCol("Blank", [r \in 1..n |-> NaN])>>)

\* rows of the tables a pipeline run is given
PipeRows == 4

PipeAges == {NaN, Int2Rat(AdultAge - 1), Int2Rat(AdultAge)}

\* design weights: all one, all zero, or 1..n with the first one missing
PipeWeights(n) ==
    {[r \in 1..n |-> Int2Rat(1)],
     [r \in 1..n |-> Int2Rat(0)],
     [r \in 1..n |-> IF r = 1 THEN NaN ELSE Int2Rat(r)]}

\* the tables read from the uploaded file
PipeTable(a, w) ==
    Table(Len(a),
          <<NumCol("Age", a),
            ObjCol("Employment_Status",
                   [r \in 1..Len(a) |-> IF r % 2 = 1 THEN "Employed" ELSE "Unemployed"]),
            NumCol("Design_Weight", w)>>)

\* the files of a session: the survey of the specification's scenario and
\* a second survey
Files ==
    {[name |-> "survey.csv",
      table |-> Table(4, <<NumCol("Age", <<Int2Rat(16), Int2Rat(25), Int2Rat(40), NaN>>),
                           ObjCol("Employment_Status",
                                  <<"Employed", "Employed", "Unemployed", "Employed">>),
                           NumCol("Design_Weight",
                                  <<Int2Rat(1), Int2Rat(2), Int2Rat(1), Int2Rat(1)>>)>>)],
     [name |-> "panel.csv",
      table |-> Table(2, <<NumCol("Age", <<Int2Rat(17), Int2Rat(30)>>),
                           ObjCol("Employment_Status", <<"Employed", "Employed">>),
                           NumCol("Design_Weight", <<Int2Rat(0), Int2Rat(0)>>)>>)]}

\* st.sidebar.multiselect over the numeric columns: nothing, the first
\* column only, or all of them (the default)
Multiselect(t) ==
    LET nc == NumericCols(t)
    IN  {<<>>, nc, SubSeq(nc, 1, 1)}

\* the sidebar configurations the table allows
Configs(t) ==
    [imputation_cols : Multiselect(t),
     imputation_method : {"Median", "Mean", "KNN"},
     outlier_cols : Multiselect(t),
     weight_column : {NumericCols(t)[k] : k \in 1..Len(NumericCols(t))}]

\* selections: empty, numeric, non-numeric and absent names
OutlierSelections ==
    {<<>>, <<"Income">>, <<"Design_Weight", "Income">>, <<"Employment_Status">>,
     <<"Region", "Income">>, <<"Employment_Status", "Region">>}

NoResult == Result(EmptyFrame, EmptyFrame, <<>>, "none")

\* st.session_state after its initialisation: every key None (<<>>)
NoSession == [df_final |-> <<>>, df_estimates |-> <<>>, logs |-> <<>>, fig |-> <<>>]

\* nothing of the results section rendered
NotShown == [results |-> FALSE, label |-> <<>>]

AppIdle ==
    /\ uploaded_file = <<>>
    /\ df_raw = EmptyFrame
    /\ cfg = <<>>
    /\ pc = "idle"
    /\ df_imputed = EmptyFrame
    /\ df_outliers_handled = EmptyFrame
    /\ df_validated = EmptyFrame
    /\ df_estimates = <<>>
    /\ logs = <<>>
    /\ session = NoSession
    /\ shown = NotShown
    /\ origin = <<>>

----------------------------------------------------------------------------
(* Library calls: a caller holding the table df calls one stage, and may   *)
(* call the same stage again on the table it got back.                     *)

Call(name, r, cs, m, w) ==
    /\ fn = "none"
    /\ fn' = name
    /\ columns' = cs
    /\ method' = m
    /\ weight_column' = w
    /\ df' = r.arg
    /\ res' = r
    /\ err' = r.exc
    /\ UNCHANGED res1
    /\ UNCHANGED appVars

Again(name, r) ==
    /\ fn = name
    /\ res.exc = "none"
    /\ fn' = name \o " again"
    /\ res1' = res
    /\ res' = r
    /\ err' = r.exc
    /\ UNCHANGED <<df, columns, method, weight_column>>
    /\ UNCHANGED appVars

LibStart ==
    /\ columns = <<>>
    /\ method = "Median"
    /\ weight_column = ""
    /\ fn = "none"
    /\ res = NoResult
    /\ res1 = NoResult
    /\ err = "none"
    /\ AppIdle

CallOutliers ==
    \E cs \in OutlierSelections :
        Call("handle_outliers", handle_outliers(df, cs), cs, method, weight_column)

CallOutliersAgain == Again("handle_outliers", handle_outliers(res.ret, columns))

InitOutliers ==
    /\ \E n \in 1..MaxRows : \E v \in [1..n -> Cells] : df = OutlierTable(v)
    /\ LibStart

NextOutliers == CallOutliers \/ CallOutliersAgain

SpecOutliers == InitOutliers /\ [][NextOutliers]_vars

----------------------------------------------------------------------------
(* Properties of handle_outliers (SpecOutliers).                           *)

\* the selected columns that are present and numeric
CappedCols(t, cs) ==
    {c \in {cs[k] : k \in 1..Len(cs)} : HasCol(t, c) /\ IsNumeric(t, c)}

\* the log lines about column c
LinesOf(log, c) == SelectSeq(log, LAMBDA l : l.col = c)

\* C1 as stated: outlier capping is idempotent; a second pass with the same
\* columns returns the table the first pass returned.
C1_Idempotent ==
    fn = "handle_outliers again" => res.ret = res1.ret

\* C1 amended: a second pass finds no outliers in, and leaves unchanged,
\* every selected numeric column whose Q1 and Q3 the first pass did not
\* change (in particular every column the first pass found no outliers in).
C1_IdempotentWhenQuartilesKept ==
    fn = "handle_outliers again" =>
        \A c \in CappedCols(df, columns) :
            LET orig == Col(df, c).vals
                once == Col(res1.ret, c).vals
                twice == Col(res.ret, c).vals
            IN  (Q1(once) = Q1(orig) /\ Q3(once) = Q3(orig)) =>
                    /\ twice = once
                    /\ LinesOf(res.log, c) = <<Line("No outliers detected", c, 0)>>

\* C1 witness: the first pass capped a value, the quartiles stayed, and the
\* second pass changed nothing (e.g. [0,0,0,0,1]).
C1_Witness ==
    /\ fn = "handle_outliers again"
    /\ \E c \in CappedCols(df, columns) :
          /\ Col(res1.ret, c).vals # Col(df, c).vals
          /\ Q1(Col(res1.ret, c).vals) = Q1(Col(df, c).vals)
          /\ Q3(Col(res1.ret, c).vals) = Q3(Col(df, c).vals)
          /\ res.ret = res1.ret

\* C9: every selected numeric column is clamped to [Q1 - 1.5 IQR,
\* Q3 + 1.5 IQR] computed from the column as given: values below the lower
\* bound become it, values above the upper bound become it, in-bound and
\* missing values, unselected columns and the index are unchanged, the
\* logged count is the number of cells changed, and with no valid column
\* the table is unchanged and the log is the single fallback line.
C9_Capping ==
    fn = "handle_outliers" =>
        LET sel == CappedCols(df, columns)
        IN  /\ res.exc = "none"
            /\ res.ret.index = df.index
            /\ ColNames(res.ret) = ColNames(df)
            /\ \A i \in 1..Len(df.cols) :
                  df.cols[i].name \notin sel => res.ret.cols[i] = df.cols[i]
            /\ \A c \in sel :
                  LET old == Col(df, c).vals
                      new == Col(res.ret, c).vals
                      iqr == RSub(Q3(old), Q1(old))
                      lb == RSub(Q1(old), RMul(Rat(3, 2), iqr))
                      ub == RAdd(Q3(old), RMul(Rat(3, 2), iqr))
                      changed == {r \in 1..Len(old) : new[r] # old[r]}
                  IN  /\ Len(new) = Len(old)
                      /\ \A r \in 1..Len(old) :
                            /\ IsNaN(old[r]) => IsNaN(new[r])
                            /\ RLt(old[r], lb) => new[r] = lb
                            /\ RGt(old[r], ub) => new[r] = ub
                            /\ (~RLt(old[r], lb) /\ ~RGt(old[r], ub)) => new[r] = old[r]
                            /\ ~IsNaN(new[r]) => (~RLt(new[r], lb) /\ ~RGt(new[r], ub))
                      /\ IF changed = {}
                         THEN LinesOf(res.log, c) = <<Line("No outliers detected", c, 0)>>
                         ELSE LinesOf(res.log, c) =
                                 <<Line("Found outlier(s)", c, Cardinality(changed)),
                                   Line("Capped outliers", c, 0)>>
            /\ sel = {} =>
                  /\ res.ret = df
                  /\ res.log = <<Line("No numeric columns selected for outlier handling.", "", 0)>>

\* C9 witness: a selected column had a value above its upper bound clamped
\* while an unselected column with the same values was left alone.
C9_Witness ==
    /\ fn = "handle_outliers"
    /\ columns = <<"Region", "Income">>
    /\ \E r \in 1..NRows(df) :
          /\ RGt(Col(df, "Income").vals[r], upper_bound(Col(df, "Income").vals))
          /\ Col(res.ret, "Income").vals[r] = upper_bound(Col(df, "Income").vals)
          /\ Col(res.ret, "Design_Weight").vals[r] = Col(df, "Design_Weight").vals[r]

----------------------------------------------------------------------------
(* Each stage called once on a table, with any selection (SpecStages).     *)

CallImputeStage ==
    \E cs \in StageSelections, m \in Methods :
        Call("impute_missing_values", impute_missing_values(df, cs, m), cs, m, weight_column)

CallOutliersStage ==
    \E cs \in StageSelections :
        Call("handle_outliers", handle_outliers(df, cs), cs, method, weight_column)

CallRulesStage ==
    Call("apply_rules", apply_rules(df), columns, method, weight_column)

CallEstimatesStage ==
    \E w \in {"Income", "Age", "Region"} :
        Call("calculate_estimates", calculate_estimates(df, w), columns, method, w)

InitStages ==
    /\ \E n \in 1..StageRows :
          \E v \in [1..n -> Cells] : \E w \in IncomePatterns(v) :
             \E status \in BOOLEAN : df = StageTable(v, w, status)
    /\ LibStart

NextStages ==
    CallImputeStage \/ CallOutliersStage \/ CallRulesStage \/ CallEstimatesStage

SpecStages == InitStages /\ [][NextStages]_vars

\* the selection names a column that is absent or not numeric, or is empty
SelectionProblem(t, cs) ==
    \/ cs = <<>>
    \/ \E k \in 1..Len(cs) : ~HasCol(t, cs[k]) \/ ~IsNumeric(t, cs[k])

\* every selected numeric column of the table has an observed value
AllObserved(t, cs) ==
    \A c \in CappedCols(t, cs) : Present(Col(t, c).vals) # <<>>

\* C2 as stated: for a selection with absent or non-numeric names, an empty
\* selection or an absent weight column, each stage returns (it does not
\* raise) with a log line, and the table is returned unchanged (the
\* estimate table empty) when nothing valid was selected.  Columns with no
\* observed value are left to C3.
C2_NeverRaises ==
    /\ (fn = "impute_missing_values" /\ SelectionProblem(df, columns)
            /\ AllObserved(df, columns)) =>
          /\ res.exc = "none"
          /\ res.log # <<>>
          /\ CappedCols(df, columns) = {} => res.ret = df
    /\ (fn = "handle_outliers" /\ SelectionProblem(df, columns)) =>
          /\ res.exc = "none"
          /\ res.log # <<>>
          /\ CappedCols(df, columns) = {} => res.ret = df
    /\ (fn = "apply_rules" /\ ~(HasCol(df, "Age") /\ HasCol(df, "Employment_Status"))) =>
          /\ res.exc = "none"
          /\ res.log # <<>>
          /\ res.ret = df
    /\ (fn = "calculate_estimates" /\ ~HasCol(df, weight_column)) =>
          /\ res.exc = "none"
          /\ res.log # <<>>
          /\ res.ret = <<>>

\* C3 as stated: Median / Mean imputation of a subset C of the numeric
\* columns returns a table where every observed cell of C is unchanged and
\* every missing cell of C holds its column's median / mean over the
\* observed values, for every column of C, also one with no observed value.
C3_Imputed ==
    (/\ fn = "impute_missing_values"
     /\ method \in {"Median", "Mean"}
     /\ ~SelectionProblem(df, columns)) =>
        /\ res.exc = "none"
        /\ \A k \in 1..Len(columns) :
              LET old == Col(df, columns[k]).vals
                  new == Col(res.ret, columns[k]).vals
                  stat == IF method = "Mean" THEN Mean(old) ELSE Median(old)
              IN  \A r \in 1..Len(old) :
                     new[r] = IF IsNaN(old[r]) THEN stat ELSE old[r]

\* C3, the part the code keeps: the statement holds whenever every selected
\* column has an observed value.
C3_ImputedWhenObserved ==
    AllObserved(df, columns) => C3_Imputed

\* C2, the part the code keeps: handle_outliers, apply_rules and
\* calculate_estimates degrade as stated, and so does impute_missing_values
\* when every selected name is a column of the table.
C2_DegradesWithoutAbsentNames ==
    (fn = "impute_missing_values" =>
        \A k \in 1..Len(columns) : HasCol(df, columns[k])) => C2_NeverRaises

----------------------------------------------------------------------------
(* apply_rules, once and again (SpecRules).                                *)

CallRules == Call("apply_rules", apply_rules(df), columns, method, weight_column)

CallRulesAgain == Again("apply_rules", apply_rules(res.ret))

InitRules ==
    /\ \E n \in 1..RuleRows :
          \E a \in [1..n -> RuleAges], e \in [1..n -> Statuses] :
             \E has \in {{"Age", "Employment_Status"}, {"Age"}, {"Employment_Status"}} :
                df = RuleTable(a, e, has)
    /\ LibStart

NextRules == CallRules \/ CallRulesAgain

SpecRules == InitRules /\ [][NextRules]_vars

\* row r of t has Age < 18 and Employment_Status = 'Employed'
Violates(t, r) ==
    /\ RLt(Col(t, "Age").vals[r], Int2Rat(18))
    /\ Col(t, "Employment_Status").vals[r] = "Employed"

\* C5: on a table with Age and Employment_Status, apply_rules leaves no row
\* with Age < 18 and 'Employed', sets exactly the violating rows' status to
\* 'Unemployed', logs their number, changes no other cell (rows with a
\* missing Age included), and applied again it reports no violation and
\* returns an identical table.
C5_RuleEstablished ==
    (HasCol(df, "Age") /\ HasCol(df, "Employment_Status")) =>
        /\ fn \in {"apply_rules", "apply_rules again"} =>
              LET first == IF fn = "apply_rules" THEN res ELSE res1
                  bad == {r \in 1..NRows(df) : Violates(df, r)}
              IN  /\ first.exc = "none"
                  /\ first.ret.index = df.index
                  /\ Col(first.ret, "Age") = Col(df, "Age")
                  /\ Len(first.ret.cols) = Len(df.cols)
                  /\ \A r \in 1..NRows(df) :
                        /\ ~Violates(first.ret, r)
                        /\ Col(first.ret, "Employment_Status").vals[r] =
                              IF r \in bad THEN "Unemployed"
                              ELSE Col(df, "Employment_Status").vals[r]
                        /\ IsNaN(Col(df, "Age").vals[r]) => r \notin bad
                  /\ first.log = IF bad = {}
                                 THEN <<Line("No rule violations found.", "", 0)>>
                                 ELSE <<Line("Found rule violation(s)", "", Cardinality(bad))>>
        /\ fn = "apply_rules again" =>
              /\ res.exc = "none"
              /\ res.log = <<Line("No rule violations found.", "", 0)>>
              /\ res.ret = res1.ret

\* C5 witness: the first pass corrected a row, kept an employed adult and
\* an employed row of unknown age, and the second pass found nothing.
C5_Witness ==
    /\ fn = "apply_rules again"
    /\ HasCol(df, "Age") /\ HasCol(df, "Employment_Status")
    /\ res1.ret # df
    /\ res.ret = res1.ret
    /\ \E r \in 1..NRows(df) :
          /\ IsNaN(Col(df, "Age").vals[r])
          /\ Col(res.ret, "Employment_Status").vals[r] = "Employed"
    /\ \E r \in 1..NRows(df) :
          /\ Col(df, "Age").vals[r] = Int2Rat(18)
          /\ Col(res.ret, "Employment_Status").vals[r] = "Employed"

----------------------------------------------------------------------------
(* calculate_estimates (SpecEstimates).                                    *)

CallEstimates ==
    \E w \in {"Design_Weight", "Age", "Region"} :
        Call("calculate_estimates", calculate_estimates(df, w), columns, method, w)

InitEstimates ==
    /\ \E n \in 1..EstRows :
          \E a \in [1..n -> Cells], w \in [1..n -> Weights] : df = EstimateTable(a, w)
    /\ LibStart

NextEstimates == CallEstimates

SpecEstimates == InitEstimates /\ [][NextEstimates]_vars

\* the rows of t where both column c and the weight w are observed
Retained(t, c, w) ==
    {r \in 1..NRows(t) : ~IsNaN(Col(t, c).vals[r]) /\ ~IsNaN(Col(t, w).vals[r])}

\* the numeric columns other than w with a retained row, in table order
Qualifying(t, w) ==
    SelectSeq(ColNames(t), LAMBDA c : /\ IsNumeric(t, c)
                                      /\ c # w
                                      /\ Retained(t, c, w) # {})

\* C4 as stated: with the weight column present, the estimate table has
\* exactly one record per qualifying column, in table order, and is empty
\* with the 'no valid columns' line when none qualifies; for every weight
\* vector, also one whose retained weights sum to zero.
C4_OneRecordPerColumn ==
    (fn = "calculate_estimates" /\ HasCol(df, weight_column)) =>
        /\ res.exc = "none"
        /\ [k \in 1..Len(res.ret) |-> res.ret[k].Variable] = Qualifying(df, weight_column)
        /\ Qualifying(df, weight_column) = <<>> =>
              res.log = <<Line("No valid numeric columns to generate estimates for.", "", 0)>>

\* C4, the part the code keeps: the statement holds for every call that
\* returns, that is whenever no qualifying column's weights sum to zero.
C4_WhenWeightsNonzero ==
    res.exc = "none" => C4_OneRecordPerColumn

----------------------------------------------------------------------------
(* app.py: one action per script run without a click, and the Run Analysis *)
(* handler step by step.                                                   *)

\* no script run is in progress
Idle == pc \in {"idle", "done", "aborted"}

\* a file is uploaded, or replaces the uploaded one; the script reruns
\* without a click and reaches the results section
Upload ==
    /\ Idle
    /\ \E f \in Files :
          /\ uploaded_file # <<f.name>>
          /\ uploaded_file' = <<f.name>>
          /\ df_raw' = f.table
    /\ pc' = "display"
    /\ shown' = NotShown
    /\ err' = "none"
    /\ UNCHANGED <<cfg, df_imputed, df_outliers_handled, df_validated, df_estimates,
                   logs, session, origin>>
    /\ UNCHANGED libVars

\* the uploaded file is removed; the script reruns with uploaded_file None
Remove ==
    /\ Idle
    /\ uploaded_file # <<>>
    /\ uploaded_file' = <<>>
    /\ df_raw' = EmptyFrame
    /\ pc' = "display"
    /\ shown' = NotShown
    /\ err' = "none"
    /\ UNCHANGED <<cfg, df_imputed, df_outliers_handled, df_validated, df_estimates,
                   logs, session, origin>>
    /\ UNCHANGED libVars

\* any other widget interaction: the script reruns without a click
Rerun ==
    /\ Idle
    /\ pc' = "display"
    /\ shown' = NotShown
    /\ err' = "none"
    /\ UNCHANGED <<uploaded_file, df_raw, cfg, df_imputed, df_outliers_handled,
                   df_validated, df_estimates, logs, session, origin>>
    /\ UNCHANGED libVars

\* the Run Analysis button is clicked with some sidebar configuration
ClickRun ==
    /\ Idle
    /\ uploaded_file # <<>>
    /\ cfg' \in Configs(df_raw)
    /\ logs' = <<>>
    /\ pc' = "impute"
    /\ shown' = NotShown
    /\ err' = "none"
    /\ UNCHANGED <<uploaded_file, df_raw, df_imputed, df_outliers_handled, df_validated,
                   df_estimates, session, origin>>
    /\ UNCHANGED libVars

\* an exception leaves the handler: the script run ends, nothing is stored
Abort(e) ==
    /\ pc' = "aborted"
    /\ err' = e
    /\ UNCHANGED <<logs, session, shown, origin>>

StageImpute ==
    /\ pc = "impute"
    /\ LET r == impute_missing_values(df_raw, cfg.imputation_cols, cfg.imputation_method)
       IN  /\ df_raw' = r.arg
           /\ IF r.exc = "none"
              THEN /\ df_imputed' = r.ret
                   /\ logs' = Append(logs, r.log)
                   /\ pc' = "outliers"
                   /\ UNCHANGED <<session, shown, origin, err>>
              ELSE Abort(r.exc) /\ UNCHANGED df_imputed
    /\ UNCHANGED <<uploaded_file, cfg, df_outliers_handled, df_validated, df_estimates>>
    /\ UNCHANGED libVars

StageOutliers ==
    /\ pc = "outliers"
    /\ LET r == handle_outliers(df_imputed, cfg.outlier_cols)
       IN  /\ df_imputed' = r.arg
           /\ df_outliers_handled' = r.ret
           /\ logs' = Append(logs, r.log)
    /\ pc' = "rules"
    /\ UNCHANGED <<uploaded_file, df_raw, cfg, df_validated, df_estimates, session,
                   shown, origin, err>>
    /\ UNCHANGED libVars

StageRules ==
    /\ pc = "rules"
    /\ LET r == apply_rules(df_outliers_handled)
       IN  /\ df_outliers_handled' = r.arg
           /\ df_validated' = r.ret
           /\ logs' = Append(logs, r.log)
    /\ pc' = "estimates"
    /\ UNCHANGED <<uploaded_file, df_raw, cfg, df_imputed, df_estimates, session,
                   shown, origin, err>>
    /\ UNCHANGED libVars

StageEstimates ==
    /\ pc = "estimates"
    /\ LET r == calculate_estimates(df_validated, cfg.weight_column)
       IN  /\ df_validated' = r.arg
           /\ IF r.exc = "none"
              THEN /\ df_estimates' = r.ret
                   /\ logs' = Append(logs, r.log)
                   /\ pc' = "store"
                   /\ UNCHANGED <<session, shown, origin, err>>
              ELSE Abort(r.exc) /\ UNCHANGED df_estimates
    /\ UNCHANGED <<uploaded_file, df_raw, cfg, df_imputed, df_outliers_handled>>
    /\ UNCHANGED libVars

\* px.bar(df_estimates, x='Variable', y=['Unweighted Mean', 'Weighted Mean'])
BarChart(est) ==
    [x |-> [k \in 1..Len(est) |-> est[k].Variable],
     y |-> <<[k \in 1..Len(est) |-> est[k].UnweightedMean],
             [k \in 1..Len(est) |-> est[k].WeightedMean]>>]

\* the results are put into st.session_state
Store ==
    /\ pc = "store"
    /\ session' = [df_final |-> <<df_validated>>,
                   df_estimates |-> <<df_estimates>>,
                   logs |-> <<logs>>,
                   fig |-> IF df_estimates # <<>> THEN <<BarChart(df_estimates)>> ELSE <<>>]
    /\ origin' = uploaded_file
    /\ pc' = "display"
    /\ UNCHANGED <<uploaded_file, df_raw, cfg, df_imputed, df_outliers_handled,
                   df_validated, df_estimates, logs, shown, err>>
    /\ UNCHANGED libVars

\* the results section: rendered when session df_final is not None, the
\* report labelled uploaded_file.name, which fails on None
Display ==
    /\ pc = "display"
    /\ pc' = "done"
    /\ IF session.df_final = <<>>
       THEN UNCHANGED <<shown, err>>
       ELSE /\ shown' = [results |-> TRUE, label |-> uploaded_file]
            /\ err' = IF uploaded_file = <<>> THEN "AttributeError" ELSE err
    /\ UNCHANGED <<uploaded_file, df_raw, cfg, df_imputed, df_outliers_handled,
                   df_validated, df_estimates, logs, session, origin>>
    /\ UNCHANGED libVars

LibUnused ==
    /\ df = EmptyFrame
    /\ columns = <<>>
    /\ method = "Median"
    /\ weight_column = ""
    /\ fn = "none"
    /\ res = NoResult
    /\ res1 = NoResult

\* one run of the pipeline on an uploaded table
InitPipeline ==
    /\ LibUnused
    /\ uploaded_file = <<"survey.csv">>
    /\ \E a \in [1..PipeRows -> PipeAges], w \in PipeWeights(PipeRows) :
          df_raw = PipeTable(a, w)
    /\ cfg = <<>>
    /\ pc = "idle"
    /\ df_imputed = EmptyFrame
    /\ df_outliers_handled = EmptyFrame
    /\ df_validated = EmptyFrame
    /\ df_estimates = <<>>
    /\ logs = <<>>
    /\ session = NoSession
    /\ shown = NotShown
    /\ origin = <<>>
    /\ err = "none"

NextPipeline ==
    \/ (pc = "idle" /\ ClickRun)
    \/ StageImpute
    \/ StageOutliers
    \/ StageRules
    \/ StageEstimates
    \/ Store
    \/ Display

SpecPipeline == InitPipeline /\ [][NextPipeline]_vars

\* a session: uploads, removals, reruns and runs in any order
InitSession ==
    /\ LibUnused
    /\ AppIdle
    /\ err = "none"

NextSession ==
    \/ Upload
    \/ Remove
    \/ Rerun
    \/ ClickRun
    \/ StageImpute
    \/ StageOutliers
    \/ StageRules
    \/ StageEstimates
    \/ Store
    \/ Display

SpecSession == InitSession /\ [][NextSession]_vars

----------------------------------------------------------------------------
(* Properties of a pipeline run (SpecPipeline).                            *)

\* the four stages composed as the handler is meant to thread them
Threaded ==
    LET a == impute_missing_values(df_raw, cfg.imputation_cols, cfg.imputation_method)
        b == handle_outliers(a.ret, cfg.outlier_cols)
        c == apply_rules(b.ret)
        d == calculate_estimates(c.ret, cfg.weight_column)
    IN  [final |-> c.ret, estimates |-> d.ret, logs |-> <<a.log, b.log, c.log, d.log>>]

\* C6 as stated: every run executes impute, cap, validate, estimate in this
\* order, each on the previous stage's table, stores the post-validation
\* table and its estimates, and logs exactly four entries in stage order,
\* whatever the configuration and the stage outcomes.
C6_FourStagesInOrder ==
    pc \in {"done", "aborted"} =>
        /\ pc = "done"
        /\ Len(logs) = 4
        /\ logs = Threaded.logs
        /\ session.df_final = <<Threaded.final>>
        /\ session.df_estimates = <<Threaded.estimates>>
        /\ session.logs = <<logs>>

\* C6, the part the code keeps: a run that reaches its end has run the
\* four stages in order on each other's tables.
C6_CompletedRuns ==
    pc = "done" => C6_FourStagesInOrder

\* t has the rows of u: the same index, the same columns, the same number
\* of cells in each
SameRows(t, u) ==
    /\ t.index = u.index
    /\ ColNames(t) = ColNames(u)
    /\ \A i \in 1..Len(t.cols) : Len(t.cols[i].vals) = Len(u.cols[i].vals)

\* the tables produced so far have the raw table's rows
C8_RowsKept ==
    /\ pc \in {"outliers", "rules", "estimates", "store", "display", "done"} =>
          SameRows(df_imputed, df_raw)
    /\ pc \in {"rules", "estimates", "store", "display", "done"} =>
          SameRows(df_outliers_handled, df_raw)
    /\ pc \in {"estimates", "store", "display", "done"} =>
          SameRows(df_validated, df_raw)
    /\ pc = "done" =>
          /\ session.df_final # <<>>
          /\ NRows(session.df_final[1]) = NRows(df_raw)

\* no step of a run changes the raw table, or a table an earlier stage
\* returned
C8_InputsKept ==
    /\ df_raw' = df_raw
    /\ pc \notin {"impute"} => df_imputed' = df_imputed
    /\ pc \notin {"outliers"} => df_outliers_handled' = df_outliers_handled
    /\ pc \notin {"rules"} => df_validated' = df_validated

\* C8: every table-producing stage leaves the table it was given unchanged
\* and returns a table with the same rows, order and index; the raw table
\* is the same before and after a run and the final table has its row
\* count.
C8_Frame == []C8_RowsKept /\ [][C8_InputsKept]_vars

\* C8 witness: a finished run in which imputation, capping and validation
\* each changed a cell, with the raw table's rows kept.
C8_Witness ==
    /\ pc = "done"
    /\ df_imputed # df_raw
    /\ df_outliers_handled # df_imputed
    /\ df_validated # df_outliers_handled
    /\ session.df_final = <<df_validated>>
    /\ SameRows(df_validated, df_raw)

----------------------------------------------------------------------------
(* Properties of a session (SpecSession).                                  *)

\* C10 as stated: whenever the results section is rendered a file is
\* uploaded, the stored results were computed by a run on that file, the
\* report carries that file's name, and the stored chart is None exactly
\* when the stored estimate table is empty.
C10_ResultsOfUploadedFile ==
    shown.results =>
        /\ uploaded_file # <<>>
        /\ origin = uploaded_file
        /\ shown.label = origin
        /\ (session.fig = <<>>) <=> (session.df_estimates = <<<<>>>>)

====
